---- MODULE Spec2Model ----
(***************************************************************************)
(* Model of the polling engine of n8n_nodes_ping.                          *)
(*                                                                         *)
(* Two trigger nodes are modelled, both named PingTrigger in               *)
(* src/nodes/Ping/PingTrigger.node.ts: the ping variant (poll at lines     *)
(* 122-268) and the server-check variant (poll at lines 600-740).  One     *)
(* poll cycle is one action.  The node's configuration is chosen in Init   *)
(* and stays fixed during a behaviour; the host's per-node static data     *)
(* (workflowStaticData) is the only state that survives a cycle.           *)
(*                                                                         *)
(* Further specifications over the same variables: SpecProbe (one probe    *)
(* and its events), SpecTargets (two nodes polling side by side),          *)
(* SpecExecute (execute() of the Ping node, ping.d.ts 108-200, and of the  *)
(* Server Check node, part_000 373-425) and SpecOverlap (cycles of one     *)
(* target that the host may let overlap).                                  *)
(***************************************************************************)
EXTENDS Integers, Naturals, Sequences, FiniteSets, TLC

(***************************************************************************)
(* Bounds of the model.                                                    *)
(***************************************************************************)
MaxCycles == 4

MaxPings == 2

MaxThreshold == 2

\* cycles per node when two nodes poll side by side
MaxTargetCycles == 2

\* input items of one execute() run
MaxItems == 2

\* poll cycles of one target that may overlap
MaxOverlapCycles == 4

(***************************************************************************)
(* Program constants.                                                      *)
(***************************************************************************)
DefaultLatencyThresholdPing == 100

DefaultLatencyThresholdServer == 1000

\* options.timeout ?? 10
DefaultTimeoutSeconds == 10

(***************************************************************************)
(* Input domains.                                                          *)
(***************************************************************************)
Variants == {"ping", "server"}

TriggerModes ==
  {"statusChange", "everyPoll", "onlyOffline", "onlyOnline", "highLatency", "unknownMode"}

CheckTypes == {"http", "tcp", "dns", "unknownType"}

\* failureThreshold is a free number option: 0 is a value the user can enter.
Thresholds == 0..MaxThreshold

\* parseFloat(result.time) || 0 of an alive reply: 0 stands for an unparsable time.
PingTimes == {0, 50, 150}

\* One ping.promise.probe result: alive flag and parsed time.
PingResponses ==
  {[alive |-> FALSE, time |-> 0]} \cup {[alive |-> TRUE, time |-> t] : t \in PingTimes}

\* number of replies with alive = true
Successes(results) == Cardinality({i \in 1..Len(results) : results[i].alive})

ServerTimes == {500, 1500}

\* One CheckResult of executeHttpCheck / executeTcpCheck / executeDnsCheck.
CheckResults == [reachable : BOOLEAN, responseTimeMs : ServerTimes]

RECURSIVE SeqsOfLen(_, _)
SeqsOfLen(S, n) ==
  IF n = 0 THEN {<<>>}
  ELSE {Append(s, x) : s \in SeqsOfLen(S, n - 1), x \in S}

(***************************************************************************)
(* Numbers: a JavaScript number that results from a division is kept as    *)
(* the fraction num/den; the fraction 0/0 is NaN.                          *)
(***************************************************************************)
Frac(n, d) == [num |-> n, den |-> d]

\* r > n for a fraction with positive denominator and an integer n
FracGT(r, n) == r.den > 0 /\ r.num > n * r.den

\* Number.prototype.toFixed(2), in hundredths, rounding half up
ToFixed2(r) == (2 * 100 * r.num + r.den) \div (2 * r.den)

NA == [text |-> "N/A", hundredths |-> 0]

\* Number.prototype.toFixed(1), in tenths, rounding half up
ToFixed1(r) == (2 * 10 * r.num + r.den) \div (2 * r.den)

\* `${packetLoss.toFixed(1)}%`; NaN.toFixed(1) is "NaN"
PercentText(r) ==
  IF r.den = 0 THEN [text |-> "NaN%", tenths |-> 0]
  ELSE [text |-> "%", tenths |-> ToFixed1(r)]

Ms(r) == [text |-> "ms", hundredths |-> ToFixed2(r)]

(***************************************************************************)
(* workflowStaticData: an object whose fields may be absent (undefined).   *)
(***************************************************************************)
EmptyObject == [k \in {} |-> FALSE]

Has(obj, k) == k \in DOMAIN obj

SetField(obj, k, v) ==
  [x \in (DOMAIN obj) \cup {k} |-> IF x = k THEN v ELSE obj[x]]

\* a count that starts from zero instead of the persisted value
LoadConsecutiveFailures_Fresh(sd) == 0

\* (workflowStaticData.consecutiveFailures as number) || 0
LoadConsecutiveFailures(sd) ==
  IF Has(sd, "consecutiveFailures") /\ sd["consecutiveFailures"] # 0
  THEN sd["consecutiveFailures"]
  ELSE 0

(***************************************************************************)
(* Aggregation loop of the ping variant.                                   *)
(***************************************************************************)
RECURSIVE PingLoop(_, _, _)
PingLoop(results, i, acc) ==
  IF i > Len(results) THEN acc
  ELSE LET result == results[i]
           time == result.time
           next == IF result.alive
                   THEN [successCount |-> acc.successCount + 1,
                         totalTime |-> acc.totalTime + time,
                         minInf |-> IF acc.minInf \/ time < acc.minTime THEN FALSE ELSE acc.minInf,
                         minTime |-> IF acc.minInf \/ time < acc.minTime THEN time ELSE acc.minTime,
                         maxTime |-> IF time > acc.maxTime THEN time ELSE acc.maxTime]
                   ELSE acc
       IN PingLoop(results, i + 1, next)

\* minInf stands for minTime = Infinity
PingLoopStart ==
  [successCount |-> 0, totalTime |-> 0, minInf |-> TRUE, minTime |-> 0, maxTime |-> 0]

AvgTime(successCount, totalTime) ==
  IF successCount > 0 THEN Frac(totalTime, successCount) ELSE Frac(0, 1)

\* a packet loss that is the share of the replies, not of the losses
PacketLoss_OfReplies(numberOfPings, successCount) ==
  Frac(successCount * 100, numberOfPings)

PacketLoss(numberOfPings, successCount) ==
  Frac((numberOfPings - successCount) * 100, numberOfPings)

(***************************************************************************)
(* Status debouncer.                                                       *)
(***************************************************************************)
\* a counter that forgets to reset on a successful cycle
UpdateConsecutiveFailures_NoReset(consecutiveFailures, isAlive) ==
  IF ~isAlive THEN consecutiveFailures + 1 ELSE consecutiveFailures

UpdateConsecutiveFailures(consecutiveFailures, isAlive) ==
  IF ~isAlive THEN consecutiveFailures + 1 ELSE 0

\* an off-by-one threshold comparison
IsOffline_Strict(newConsecutiveFailures, failureThreshold) ==
  newConsecutiveFailures > failureThreshold

IsOffline(newConsecutiveFailures, failureThreshold) ==
  newConsecutiveFailures >= failureThreshold

\* a status that stays online until the threshold is reached
CurrentStatus_Debounced(newConsecutiveFailures, failureThreshold, isAlive) ==
  ~IsOffline(newConsecutiveFailures, failureThreshold)

CurrentStatus(newConsecutiveFailures, failureThreshold, isAlive) ==
  ~IsOffline(newConsecutiveFailures, failureThreshold) /\ isAlive

StatusText(b) == IF b THEN "online" ELSE "offline"

(***************************************************************************)
(* Trigger evaluator: one operator per case of the switch on triggerMode.  *)
(* sd is the static data read at the start of the cycle.                   *)
(***************************************************************************)
StatusChangeTransition(sd, currentStatus) ==
  Has(sd, "previousStatus") /\ sd["previousStatus"] # currentStatus

StatusChangeInitial(sd) == ~Has(sd, "previousStatus")

\* a statusChange case without the first-run baseline event
StatusChangeFires_NoBaseline(sd, currentStatus) ==
  StatusChangeTransition(sd, currentStatus)

StatusChangeFires(sd, currentStatus) ==
  StatusChangeTransition(sd, currentStatus) \/ StatusChangeInitial(sd)

EveryPollFires == TRUE

\* an onlyOffline case with the condition inverted
OnlyOfflineFires_Inverted(currentStatus) == currentStatus

OnlyOfflineFires(currentStatus) == ~currentStatus

OnlyOnlineFires(currentStatus) == currentStatus

HighLatencyFires(isAlive, latencyExceeded) == isAlive /\ latencyExceeded

ShouldTrigger(mode, sd, currentStatus, isAlive, latencyExceeded) ==
  CASE mode = "statusChange" -> StatusChangeFires(sd, currentStatus)
    [] mode = "everyPoll" -> EveryPollFires
    [] mode = "onlyOffline" -> OnlyOfflineFires(currentStatus)
    [] mode = "onlyOnline" -> OnlyOnlineFires(currentStatus)
    [] mode = "highLatency" -> HighLatencyFires(isAlive, latencyExceeded)
    [] OTHER -> FALSE

\* a statusChange case with the two transition texts swapped
TriggerReason_Swapped(mode, sd, currentStatus, isAlive, latencyExceeded) ==
  CASE mode = "statusChange" ->
         IF StatusChangeInitial(sd) THEN "Initial status check"
         ELSE IF StatusChangeTransition(sd, currentStatus)
              THEN (IF currentStatus THEN "went offline" ELSE "came online")
              ELSE ""
    [] mode = "everyPoll" -> "Scheduled poll"
    [] mode = "onlyOffline" -> IF OnlyOfflineFires(currentStatus) THEN "is offline" ELSE ""
    [] mode = "onlyOnline" -> IF OnlyOnlineFires(currentStatus) THEN "is online" ELSE ""
    [] mode = "highLatency" ->
         IF HighLatencyFires(isAlive, latencyExceeded) THEN "High latency detected" ELSE ""
    [] OTHER -> ""

\* the kind of outputData.triggerReason ("" when no case assigns it)
TriggerReason(mode, sd, currentStatus, isAlive, latencyExceeded) ==
  CASE mode = "statusChange" ->
         IF StatusChangeInitial(sd) THEN "Initial status check"
         ELSE IF StatusChangeTransition(sd, currentStatus)
              THEN (IF currentStatus THEN "came online" ELSE "went offline")
              ELSE ""
    [] mode = "everyPoll" -> "Scheduled poll"
    [] mode = "onlyOffline" -> IF OnlyOfflineFires(currentStatus) THEN "is offline" ELSE ""
    [] mode = "onlyOnline" -> IF OnlyOnlineFires(currentStatus) THEN "is online" ELSE ""
    [] mode = "highLatency" ->
         IF HighLatencyFires(isAlive, latencyExceeded) THEN "High latency detected" ELSE ""
    [] OTHER -> ""


(***************************************************************************)
(* Probe strategies: executeHttpCheck, executeTcpCheck, executeDnsCheck.   *)
(* The trigger's copies (PingTrigger.node.ts 292-411) and the Server Check *)
(* node's copies (part_000 15-224) differ in the target validation and in  *)
(* the acceptAnyStatus policy; caller tells them apart.  A probe is the    *)
(* promise, the request/socket handle, the timer and the DNS lookup; the   *)
(* runtime delivers events one at a time and each handler runs to its end. *)
(***************************************************************************)
Callers == {"trigger", "node"}

ProbeTypes == {"http", "tcp", "dns"}

\* options.timeout in seconds: a negative value, zero and the default
TimeoutOptions == {-1, 0, DefaultTimeoutSeconds}

\* the configured url / host / domain: empty, not parsable as a URL, usable
Targets == {"empty", "bad", "ok"}

\* res.statusCode; 0 stands for an undefined status code (res.statusCode || 0)
StatusCodes == {0, 200, 399, 400, 500}

\* err.message of a runtime network error
ErrMessages == {"ECONNREFUSED", "ENOTFOUND"}

\* a settled or unsettled promise of a CheckResult
PromiseOf(state, reachable, error, status, statusCode, errorType) ==
  [state |-> state, reachable |-> reachable, error |-> error, status |-> status,
   statusCode |-> statusCode, errorType |-> errorType]

NoPromise == PromiseOf("none", FALSE, "", "", 0, "")

PendingPromise == PromiseOf("pending", FALSE, "", "", 0, "")

Rejected(errorType, message) == PromiseOf("rejected", FALSE, message, "", 0, errorType)

\* the status field exists only in the Server Check node's results
StatusField(caller, reachable) ==
  IF caller = "node" THEN StatusText(reachable) ELSE ""

\* a result that every handler overwrites: the last event wins
Resolve_LastWins(promise, reachable, error, status, statusCode) ==
  IF promise.state \in {"pending", "resolved"}
  THEN PromiseOf("resolved", reachable, error, status, statusCode, "")
  ELSE promise

\* resolve(value): only the first call settles the promise
Resolve(promise, reachable, error, status, statusCode) ==
  IF promise.state = "pending"
  THEN PromiseOf("resolved", reachable, error, status, statusCode, "")
  ELSE promise

\* acceptAnyStatus ? true : statusCode >= 200 && statusCode < 400
HttpIsReachable_Upto400(acceptAnyStatus, statusCode) ==
  IF acceptAnyStatus THEN TRUE ELSE statusCode >= 200 /\ statusCode <= 400

HttpIsReachable(acceptAnyStatus, statusCode) ==
  IF acceptAnyStatus THEN TRUE ELSE statusCode >= 200 /\ statusCode < 400

\* socket.setTimeout(ms) / request option timeout: 0 disables the idle timer
SocketTimer(ms) == IF ms = 0 THEN "disabled" ELSE "armed"

\* setTimeout(cb, ms): a delay below 1 is set to 1
TimerDelay(ms) == IF ms < 1 THEN 1 ELSE ms

\* socket.destroy() / req.destroy() also stops the idle timer
TimerAfterDestroy(timer) == IF timer = "armed" THEN "cleared" ELSE timer

\* clearTimeout(timeoutId)
ClearTimeout(timer) == IF timer = "armed" THEN "cleared" ELSE timer

IdleProbe ==
  [caller |-> "trigger", checkType |-> "http", timeoutSec |-> DefaultTimeoutSeconds,
   target |-> "ok", acceptAnyStatus |-> TRUE,
   promise |-> NoPromise, handle |-> "none", timer |-> "none", timerMs |-> 0,
   lookup |-> "none", responded |-> FALSE, hangup |-> FALSE,
   firstEvent |-> "none", firstError |-> "", firstCode |-> 0,
   events |-> 0, timerFired |-> FALSE]

\* the call of executeHttpCheck / executeTcpCheck / executeDnsCheck up to the
\* return of the promise
StartProbe(p) ==
  LET timeout == p.timeoutSec * 1000 IN
  IF p.caller = "node" /\ p.target = "empty"
  THEN [p EXCEPT !.promise = Rejected("NodeOperationError", "is required")]
  ELSE IF p.checkType = "http"
  THEN IF p.target # "ok"
       THEN [p EXCEPT !.promise = Rejected("TypeError", "Invalid URL")]
       ELSE IF timeout < 0
       THEN [p EXCEPT !.promise = Rejected("RangeError", "ERR_OUT_OF_RANGE")]
       ELSE [p EXCEPT !.promise = PendingPromise, !.handle = "open",
                      !.timer = SocketTimer(timeout), !.timerMs = timeout]
  ELSE IF p.checkType = "tcp"
  THEN IF timeout < 0
       THEN [p EXCEPT !.promise = Rejected("RangeError", "ERR_OUT_OF_RANGE")]
       ELSE [p EXCEPT !.promise = PendingPromise, !.handle = "open",
                      !.timer = SocketTimer(timeout), !.timerMs = timeout]
  ELSE [p EXCEPT !.promise = PendingPromise, !.lookup = "inFlight",
                 !.timer = "armed", !.timerMs = TimerDelay(timeout)]

\* response callback of httpModule.request
HttpOnResponse(p, statusCode) ==
  LET isReachable == IF p.caller = "node"
                     THEN HttpIsReachable(p.acceptAnyStatus, statusCode)
                     ELSE TRUE
  IN [p EXCEPT !.responded = TRUE,
               !.promise = Resolve(p.promise, isReachable, "",
                                   StatusField(p.caller, isReachable), statusCode)]

\* req.on('timeout'): req.destroy(), then resolve; destroying a request that
\* has no response yet makes the runtime emit 'error' (socket hang up) later
HttpOnTimeout(p) ==
  [p EXCEPT !.handle = "destroyed",
            !.timer = TimerAfterDestroy(p.timer),
            !.hangup = ~p.responded,
            !.promise = Resolve(p.promise, FALSE, "Connection timeout",
                                StatusField(p.caller, FALSE), 0)]

\* req.on('error')
HttpOnError(p, message) ==
  [p EXCEPT !.handle = "destroyed",
            !.timer = TimerAfterDestroy(p.timer),
            !.hangup = FALSE,
            !.promise = Resolve(p.promise, FALSE, message,
                                StatusField(p.caller, FALSE), 0)]

\* a connect handler that forgets socket.destroy()
TcpOnConnect_NoDestroy(p) ==
  [p EXCEPT !.promise = Resolve(p.promise, TRUE, "", StatusField(p.caller, TRUE), 0)]

\* socket.on('connect')
TcpOnConnect(p) ==
  [p EXCEPT !.handle = "destroyed",
            !.timer = TimerAfterDestroy(p.timer),
            !.promise = Resolve(p.promise, TRUE, "", StatusField(p.caller, TRUE), 0)]

\* a timeout handler that resolves without the error text
TcpOnTimeout_NoError(p) ==
  [p EXCEPT !.handle = "destroyed",
            !.timer = TimerAfterDestroy(p.timer),
            !.promise = Resolve(p.promise, FALSE, "", StatusField(p.caller, FALSE), 0)]

\* socket.on('timeout')
TcpOnTimeout(p) ==
  [p EXCEPT !.handle = "destroyed",
            !.timer = TimerAfterDestroy(p.timer),
            !.promise = Resolve(p.promise, FALSE, "Connection timeout",
                                StatusField(p.caller, FALSE), 0)]

\* socket.on('error')
TcpOnError(p, message) ==
  [p EXCEPT !.handle = "destroyed",
            !.timer = TimerAfterDestroy(p.timer),
            !.promise = Resolve(p.promise, FALSE, message,
                                StatusField(p.caller, FALSE), 0)]

\* the setTimeout callback of executeDnsCheck
DnsOnTimer(p) ==
  [p EXCEPT !.timer = "fired",
            !.timerFired = TRUE,
            !.promise = Resolve(p.promise, FALSE, "DNS lookup timeout",
                                StatusField(p.caller, FALSE), 0)]

\* a lookup callback that forgets clearTimeout(timeoutId)
DnsOnLookup_NoClear(p, message) ==
  [p EXCEPT !.lookup = "done",
            !.promise = IF message # ""
                        THEN Resolve(p.promise, FALSE, message,
                                     StatusField(p.caller, FALSE), 0)
                        ELSE Resolve(p.promise, TRUE, "",
                                     StatusField(p.caller, TRUE), 0)]

\* the dns.lookup callback; message = "" stands for err == null
DnsOnLookup(p, message) ==
  [p EXCEPT !.lookup = "done",
            !.timer = ClearTimeout(p.timer),
            !.promise = IF message # ""
                        THEN Resolve(p.promise, FALSE, message,
                                     StatusField(p.caller, FALSE), 0)
                        ELSE Resolve(p.promise, TRUE, "",
                                     StatusField(p.caller, TRUE), 0)]

\* bookkeeping of the delivered events: which came first, with what payload
Delivered(p, q, event, message, statusCode) ==
  [q EXCEPT !.events = p.events + 1,
            !.firstEvent = IF p.firstEvent = "none" THEN event ELSE p.firstEvent,
            !.firstError = IF p.firstEvent = "none" THEN message ELSE p.firstError,
            !.firstCode = IF p.firstEvent = "none" THEN statusCode ELSE p.firstCode]

(***************************************************************************)
(* One poll cycle as a function of the static data read at its start: the  *)
(* counter update, the debounced status and the trigger decision.          *)
(***************************************************************************)
CycleOutcome(sd, threshold, mode, isAlive, latencyExceeded) ==
  LET consecutiveFailures == LoadConsecutiveFailures(sd)
      newConsecutiveFailures == UpdateConsecutiveFailures(consecutiveFailures, isAlive)
      currentStatus == CurrentStatus(newConsecutiveFailures, threshold, isAlive)
  IN [failures |-> newConsecutiveFailures,
      status |-> currentStatus,
      fired |-> ShouldTrigger(mode, sd, currentStatus, isAlive, latencyExceeded),
      reason |-> TriggerReason(mode, sd, currentStatus, isAlive, latencyExceeded)]

\* a cycle that saves its state only when it emits an event
SaveState_OnlyWhenFired(sd, c) ==
  IF c.fired
  THEN SetField(SetField(sd, "consecutiveFailures", c.failures), "previousStatus", c.status)
  ELSE sd

\* workflowStaticData.consecutiveFailures = newConsecutiveFailures;
\* workflowStaticData.previousStatus = currentStatus; c is the cycle's outcome
SaveState(sd, c) ==
  SetField(SetField(sd, "consecutiveFailures", c.failures), "previousStatus", c.status)

\* a cycle that hands the host an empty event when its mode's condition fails
PollReturn_EmptyEvent(shouldTrigger, out) ==
  IF shouldTrigger
  THEN [kind |-> "event", items |-> <<out>>]
  ELSE [kind |-> "event", items |-> <<EmptyObject>>]

\* if (shouldTrigger) return [[{ json: outputData }]]; return null;
PollReturn(shouldTrigger, out) ==
  IF shouldTrigger
  THEN [kind |-> "event", items |-> <<out>>]
  ELSE [kind |-> "null", items |-> <<>>]

\* a cycle that books a missing probe result as a failed cycle
NoResult_CountsFailure(sd) ==
  SetField(sd, "consecutiveFailures", LoadConsecutiveFailures(sd) + 1)

\* the static data after a server-check cycle that ends before the counter
\* update: nothing has been assigned to it
NoResult(sd) == sd

(***************************************************************************)
(* Several trigger nodes in one workflow.  getWorkflowStaticData('node')   *)
(* hands each node the object stored under its own name.                   *)
(***************************************************************************)
Nodes == {"n1", "n2"}

StoreKeys == Nodes \cup {"global"}

\* a node that asks for the workflow-wide object instead of its own
StaticDataKey_Global(n) == "global"

\* getWorkflowStaticData('node')
StaticDataKey(n) == n

IdleStore == [k \in StoreKeys |-> EmptyObject]

IdleNode ==
  [mode |-> "statusChange", threshold |-> 2, phase |-> "idle", read |-> EmptyObject,
   inputs |-> <<>>, events |-> <<>>]

IdleNodes == [n \in Nodes |-> IdleNode]

\* the static data and the events a node ends with when its cycles run alone
RECURSIVE Replay(_, _, _, _)
Replay(inputs, i, threshold, mode) ==
  IF i = 0 THEN [sd |-> EmptyObject, events |-> <<>>]
  ELSE LET before == Replay(inputs, i - 1, threshold, mode)
           c == CycleOutcome(before.sd, threshold, mode,
                             inputs[i].isAlive, inputs[i].latencyExceeded)
       IN [sd |-> SaveState(before.sd, c),
           events |-> Append(before.events, c)]

(***************************************************************************)
(* execute() of the Ping node (ping.d.ts 108-200) and of the Server Check  *)
(* node (part_000 373-425): one loop iteration per input item, the body in *)
(* a try block.                                                            *)
(***************************************************************************)
ExecNodes == {"ping", "serverCheck"}

\* parameter host of an item: empty or not
Hosts == {"", "host"}

PingItems == [host : Hosts]

ServerCheckItems ==
  {[checkType |-> t, target |-> g] : t \in {"http"}, g \in Targets}
    \cup {[checkType |-> t, target |-> g] : t \in {"tcp", "dns"}, g \in {"empty", "ok"}}
    \cup {[checkType |-> "unknownType", target |-> "ok"]}

RECURSIVE SeqsUpTo(_, _)
SeqsUpTo(S, n) ==
  IF n = 0 THEN {<<>>}
  ELSE SeqsUpTo(S, n - 1) \cup SeqsOfLen(S, n)

Threw(message) == [threw |-> TRUE, message |-> message, json |-> EmptyObject]

Returned(json) == [threw |-> FALSE, message |-> "", json |-> json]

\* the try block of Ping.execute for one item: the record it builds, or the
\* error it throws.  results are the replies of the numberOfPings probes.
PingTry(host, numberOfPings, results) ==
  IF host = "" THEN Threw("Host is required")
  ELSE IF Len(results) = 0
  THEN \* lastResult is undefined: reading lastResult.alive throws a TypeError
       Threw("Cannot read properties of undefined")
  ELSE LET acc == PingLoop(results, 1, PingLoopStart)
           successCount == acc.successCount
           lastResult == results[Len(results)]
           packetLoss == PacketLoss(numberOfPings, successCount)
       IN Returned([alive |-> lastResult.alive,
                    status |-> IF lastResult.alive THEN "reachable" ELSE "unreachable",
                    packetLoss |-> PercentText(packetLoss),
                    pingsAttempted |-> numberOfPings,
                    pingsSuccessful |-> successCount,
                    pingsFailed |-> numberOfPings - successCount])

\* the try block of the Server Check node's execute for one item; reachable is
\* the outcome of the probe when the check function returns a pending promise
ServerCheckTry(checkType, target, reachable) ==
  IF checkType \notin {"http", "tcp", "dns"} THEN Threw("Unknown check type")
  ELSE LET p == StartProbe([IdleProbe EXCEPT !.caller = "node",
                                             !.checkType = checkType,
                                             !.target = target])
       IN IF p.promise.state = "rejected" THEN Threw(p.promise.error)
          ELSE Returned([reachable |-> reachable,
                         status |-> StatusField("node", reachable)])

\* the json of the catch block's record
PingErrorRecord(message) == [alive |-> FALSE, status |-> "error", error |-> message]

ServerCheckErrorRecord(message) ==
  [reachable |-> FALSE, status |-> "error", error |-> message]

\* returnData.push({ json, pairedItem: { item: i } }) and the next iteration
ExecutePush(x, json) ==
  [x EXCEPT !.returnData = Append(@, [json |-> json, pairedItem |-> x.i]),
            !.i = @ + 1]

\* a catch block that skips the failed item without a record
ExecuteCatch_Swallow(x, json, message) ==
  IF x.continueOnFail
  THEN [x EXCEPT !.i = @ + 1]
  ELSE [x EXCEPT !.state = "thrown", !.error = message]

\* catch (error) { if (this.continueOnFail()) { push; continue; } throw error; }
ExecuteCatch(x, json, message) ==
  IF x.continueOnFail
  THEN ExecutePush(x, json)
  ELSE [x EXCEPT !.state = "thrown", !.error = message]

\* no execute() in progress
IdleExec ==
  [node |-> "ping", continueOnFail |-> FALSE, numberOfPings |-> 1, items |-> <<>>,
   i |-> 0, returnData |-> <<>>, state |-> "idle", error |-> "", output |-> <<>>]

(***************************************************************************)
(* Poll cycles of one target that the host may start before the previous   *)
(* one has finished.                                                       *)
(***************************************************************************)
IdleTarget ==
  [serialized |-> TRUE, staticData |-> EmptyObject, inFlight |-> <<>>,
   started |-> 0, completed |-> <<>>]

\* sequence s without its k-th element
Without(s, k) == [j \in 1..(Len(s) - 1) |-> IF j < k THEN s[j] ELSE s[j + 1]]

(***************************************************************************)
(* State.                                                                  *)
(***************************************************************************)
VARIABLES
  exec,                \* the execute() run in progress
  targetState,         \* one target's static data and its cycles in flight
  store,               \* the host's static data, one object per key
  nodes,               \* the trigger nodes of a workflow that poll side by side
  probe,               \* the probe in progress (promise, handle, timer, lookup)
  variant,             \* which trigger node this instance is
  triggerMode,         \* parameter triggerMode
  failureThreshold,    \* options.failureThreshold ?? 2
  numberOfPings,       \* options.numberOfPings ?? 3 (ping variant)
  checkType,           \* parameter checkType (server-check variant)
  urlParses,           \* whether new URL(url) succeeds (http check)
  latencyThreshold,    \* parameter latencyThreshold
  workflowStaticData,  \* getWorkflowStaticData('node')
  result,              \* what the last poll() did: "none", "event", "null", "throw"
  outputData,          \* outputData built by the last cycle that got a probe result
  emitted,             \* the items the last poll() returned (none when it returned null)
  aliveReplies,        \* how many probes of the last ping cycle were answered
  hist,                \* one entry per cycle that got a probe result
  cycles               \* number of poll() calls so far

\* The static data a reachable cycle leaves behind.  The host keeps it when the
\* node's parameters are edited, so a node whose check type or URL was changed
\* to one that yields no probe result starts from it.
SavedOnline ==
  SetField(SetField(EmptyObject, "consecutiveFailures", 0), "previousStatus", TRUE)

config == <<variant, triggerMode, failureThreshold, numberOfPings, checkType,
            urlParses, latencyThreshold>>

pollVars == <<variant, triggerMode, failureThreshold, numberOfPings, checkType,
              urlParses, latencyThreshold, workflowStaticData, result, outputData,
              emitted, aliveReplies, hist, cycles>>

vars == <<variant, triggerMode, failureThreshold, numberOfPings, checkType,
          urlParses, latencyThreshold, workflowStaticData, result, outputData,
          emitted, aliveReplies, hist, cycles, probe, store, nodes, exec, targetState>>

Init ==
  /\ variant \in Variants
  /\ triggerMode \in TriggerModes
  /\ failureThreshold \in Thresholds
  /\ IF variant = "ping"
     THEN /\ numberOfPings \in 0..MaxPings
          /\ checkType = "ping"
          /\ urlParses = TRUE
          /\ latencyThreshold = DefaultLatencyThresholdPing
     ELSE /\ numberOfPings = 1
          /\ checkType \in CheckTypes
          /\ urlParses \in (IF checkType = "http" THEN BOOLEAN ELSE {TRUE})
          /\ latencyThreshold = DefaultLatencyThresholdServer
  /\ workflowStaticData \in
       (IF variant = "server" /\ (checkType = "unknownType" \/ ~urlParses)
        THEN {EmptyObject, SavedOnline}
        ELSE {EmptyObject})
  /\ result = "none"
  /\ outputData = EmptyObject
  /\ emitted = <<>>
  /\ aliveReplies = 0
  /\ hist = <<>>
  /\ cycles = 0
  /\ probe = IdleProbe
  /\ store = IdleStore
  /\ nodes = IdleNodes
  /\ exec = IdleExec
  /\ targetState = IdleTarget

\* The part of a cycle both variants share, from the counter update to the return.
\* isAlive is the cycle's reachability, latencyExceeded the comparison of the
\* highLatency case, out the variant's outputData without status and reason.
FinishCycle(isAlive, latencyExceeded, out) ==
  LET sd == workflowStaticData
      c == CycleOutcome(sd, failureThreshold, triggerMode, isAlive, latencyExceeded)
      newConsecutiveFailures == c.failures
      currentStatus == c.status
      shouldTrigger == c.fired
      reason == c.reason
      transition == triggerMode = "statusChange" /\ StatusChangeTransition(sd, currentStatus)
      event ==
          [out EXCEPT !.status = StatusText(currentStatus),
                      !.triggerReason = reason,
                      !.consecutiveFailures = newConsecutiveFailures,
                      !.hasPreviousStatus = transition,
                      !.previousStatus = IF transition THEN StatusText(sd["previousStatus"]) ELSE "",
                      !.newStatus = IF transition THEN StatusText(currentStatus) ELSE ""]
      returned == PollReturn(shouldTrigger, event)
  IN /\ workflowStaticData' = SaveState(sd, c)
     /\ outputData' = event
     /\ result' = returned.kind
     /\ emitted' = returned.items
     /\ hist' = Append(hist, [reachable |-> isAlive,
                              status |-> currentStatus,
                              failures |-> newConsecutiveFailures,
                              fired |-> shouldTrigger,
                              reason |-> reason,
                              latencyExceeded |-> latencyExceeded])

\* the fields FinishCycle fills in
Blank ==
  [status |-> "", triggerReason |-> "", consecutiveFailures |-> 0,
   hasPreviousStatus |-> FALSE, previousStatus |-> "", newStatus |-> ""]

\* poll() of the ping variant
PollPing ==
  /\ variant = "ping"
  /\ cycles < MaxCycles
  /\ \E results \in SeqsOfLen(PingResponses, numberOfPings) :
       LET acc == PingLoop(results, 1, PingLoopStart)
           successCount == acc.successCount
           isAlive == successCount > 0
           avgTime == AvgTime(successCount, acc.totalTime)
           packetLoss == PacketLoss(numberOfPings, successCount)
           out == [alive |-> isAlive,
                   responseTime |-> IF FracGT(avgTime, 0) THEN Ms(avgTime) ELSE NA,
                   responseTimeMs |-> avgTime,
                   packetLoss |-> PercentText(packetLoss),
                   packetLossPercent |-> packetLoss,
                   pingsAttempted |-> numberOfPings,
                   pingsSuccessful |-> successCount,
                   pingsFailed |-> numberOfPings - successCount,
                   minTime |-> IF ~acc.minInf THEN Ms(Frac(acc.minTime, 1)) ELSE NA,
                   maxTime |-> IF acc.maxTime > 0 THEN Ms(Frac(acc.maxTime, 1)) ELSE NA,
                   failureThreshold |-> failureThreshold]
       IN /\ FinishCycle(isAlive, FracGT(avgTime, latencyThreshold), out @@ Blank)
          /\ aliveReplies' = Successes(results)
  /\ cycles' = cycles + 1
  /\ UNCHANGED config
  /\ UNCHANGED <<probe, store, nodes, exec, targetState>>

\* poll() of the server-check variant
PollServerCheck ==
  /\ variant = "server"
  /\ cycles < MaxCycles
  /\ IF checkType \notin {"http", "tcp", "dns"}
     THEN \* default: return null
          /\ result' = "null"
          /\ emitted' = <<>>
          /\ workflowStaticData' = NoResult(workflowStaticData)
          /\ UNCHANGED <<outputData, hist>>
     ELSE IF checkType = "http" /\ ~urlParses
     THEN \* new URL(url) throws inside the promise executor: poll() rejects
          /\ result' = "throw"
          /\ emitted' = <<>>
          /\ workflowStaticData' = NoResult(workflowStaticData)
          /\ UNCHANGED <<outputData, hist>>
     ELSE \E checkResult \in CheckResults :
            LET out == [reachable |-> checkResult.reachable,
                        responseTimeMs |-> checkResult.responseTimeMs,
                        failureThreshold |-> failureThreshold]
            IN FinishCycle(checkResult.reachable,
                           checkResult.responseTimeMs > latencyThreshold,
                           out @@ Blank)
  /\ cycles' = cycles + 1
  /\ UNCHANGED <<config, aliveReplies>>
  /\ UNCHANGED <<probe, store, nodes, exec, targetState>>

Next == PollPing \/ PollServerCheck

Spec == Init /\ [][Next]_vars


(***************************************************************************)
(* One probe, from the call of the check function to its last event.       *)
(***************************************************************************)
\* the poll state of a trigger that has not polled yet
PollIdle ==
  /\ variant = "server"
  /\ triggerMode = "statusChange"
  /\ failureThreshold = 2
  /\ numberOfPings = 1
  /\ checkType = "http"
  /\ urlParses = TRUE
  /\ latencyThreshold = DefaultLatencyThresholdServer
  /\ workflowStaticData = EmptyObject
  /\ result = "none"
  /\ outputData = EmptyObject
  /\ emitted = <<>>
  /\ aliveReplies = 0
  /\ hist = <<>>
  /\ cycles = 0

InitProbe ==
  /\ PollIdle
  /\ store = IdleStore
  /\ nodes = IdleNodes
  /\ exec = IdleExec
  /\ targetState = IdleTarget
  /\ \E caller \in Callers, type \in ProbeTypes, sec \in TimeoutOptions,
        target \in Targets, accept \in BOOLEAN :
       /\ (target = "bad" => type = "http")
       /\ (accept = FALSE => (caller = "node" /\ type = "http"))
       /\ probe = [IdleProbe EXCEPT !.caller = caller, !.checkType = type,
                                    !.timeoutSec = sec, !.target = target,
                                    !.acceptAnyStatus = accept]

ProbeStart ==
  /\ probe.promise.state = "none"
  /\ probe' = StartProbe(probe)
  /\ UNCHANGED <<pollVars, store, nodes, exec, targetState>>

HttpResponse ==
  /\ probe.checkType = "http"
  /\ probe.handle = "open"
  /\ ~probe.responded
  /\ \E statusCode \in StatusCodes :
       probe' = Delivered(probe, HttpOnResponse(probe, statusCode), "response", "", statusCode)
  /\ UNCHANGED <<pollVars, store, nodes, exec, targetState>>

HttpTimeout ==
  /\ probe.checkType = "http"
  /\ probe.handle = "open"
  /\ probe.timer = "armed"
  /\ probe' = Delivered(probe, HttpOnTimeout(probe), "timeout", "", 0)
  /\ UNCHANGED <<pollVars, store, nodes, exec, targetState>>

HttpError ==
  /\ probe.checkType = "http"
  /\ probe.handle = "open" \/ probe.hangup
  /\ \E message \in ErrMessages :
       probe' = Delivered(probe, HttpOnError(probe, message), "error", message, 0)
  /\ UNCHANGED <<pollVars, store, nodes, exec, targetState>>

TcpConnect ==
  /\ probe.checkType = "tcp"
  /\ probe.handle = "open"
  /\ probe' = Delivered(probe, TcpOnConnect(probe), "connect", "", 0)
  /\ UNCHANGED <<pollVars, store, nodes, exec, targetState>>

TcpTimeout ==
  /\ probe.checkType = "tcp"
  /\ probe.handle = "open"
  /\ probe.timer = "armed"
  /\ probe' = Delivered(probe, TcpOnTimeout(probe), "timeout", "", 0)
  /\ UNCHANGED <<pollVars, store, nodes, exec, targetState>>

TcpError ==
  /\ probe.checkType = "tcp"
  /\ probe.handle = "open"
  /\ \E message \in ErrMessages :
       probe' = Delivered(probe, TcpOnError(probe, message), "error", message, 0)
  /\ UNCHANGED <<pollVars, store, nodes, exec, targetState>>

DnsTimer ==
  /\ probe.checkType = "dns"
  /\ probe.timer = "armed"
  /\ probe' = Delivered(probe, DnsOnTimer(probe), "timer", "", 0)
  /\ UNCHANGED <<pollVars, store, nodes, exec, targetState>>

\* dns.lookup of an empty hostname calls back with err = null and no address
DnsLookup ==
  /\ probe.checkType = "dns"
  /\ probe.lookup = "inFlight"
  /\ \E message \in (IF probe.target = "empty" THEN {""} ELSE ErrMessages \cup {""}) :
       probe' = Delivered(probe, DnsOnLookup(probe, message),
                          IF message = "" THEN "lookupOk" ELSE "lookupErr", message, 0)
  /\ UNCHANGED <<pollVars, store, nodes, exec, targetState>>

NextProbe ==
  \/ ProbeStart
  \/ HttpResponse
  \/ HttpTimeout
  \/ HttpError
  \/ TcpConnect
  \/ TcpTimeout
  \/ TcpError
  \/ DnsTimer
  \/ DnsLookup

SpecProbe == InitProbe /\ [][NextProbe]_vars

(***************************************************************************)
(* Poll cycles of several nodes, interleaved at the awaits: a cycle reads  *)
(* the static data before it awaits its probes and writes it afterwards.   *)
(***************************************************************************)
InitTargets ==
  /\ PollIdle
  /\ probe = IdleProbe
  /\ exec = IdleExec
  /\ targetState = IdleTarget
  /\ store = IdleStore
  /\ nodes \in [Nodes -> {[IdleNode EXCEPT !.mode = m, !.threshold = t] :
                            m \in TriggerModes, t \in Thresholds}]

\* poll() up to the first await: lines 136-139 (611-614)
TargetPollStart(n) ==
  /\ nodes[n].phase = "idle"
  /\ Len(nodes[n].inputs) < MaxTargetCycles
  /\ nodes' = [nodes EXCEPT ![n].phase = "probing",
                            ![n].read = store[StaticDataKey(n)]]
  /\ UNCHANGED <<pollVars, probe, store, exec, targetState>>

\* poll() after the probes: lines 167-267 (645-739)
TargetPollFinish(n) ==
  /\ nodes[n].phase = "probing"
  /\ \E isAlive \in BOOLEAN,
        latencyExceeded \in (IF nodes[n].mode = "highLatency" THEN BOOLEAN ELSE {FALSE}) :
       LET c == CycleOutcome(nodes[n].read, nodes[n].threshold, nodes[n].mode,
                             isAlive, latencyExceeded)
           key == StaticDataKey(n)
       IN /\ store' = [store EXCEPT ![key] = SaveState(store[key], c)]
          /\ nodes' = [nodes EXCEPT
                         ![n].phase = "idle",
                         ![n].inputs = Append(nodes[n].inputs,
                                              [isAlive |-> isAlive,
                                               latencyExceeded |-> latencyExceeded]),
                         ![n].events = Append(nodes[n].events, c)]
  /\ UNCHANGED <<pollVars, probe, exec, targetState>>

NextTargets ==
  \/ \E n \in Nodes : TargetPollStart(n)
  \/ \E n \in Nodes : TargetPollFinish(n)

SpecTargets == InitTargets /\ [][NextTargets]_vars

(***************************************************************************)
(* One run of execute() over its input items.                              *)
(***************************************************************************)
InitExecute ==
  /\ PollIdle
  /\ probe = IdleProbe
  /\ store = IdleStore
  /\ nodes = IdleNodes
  /\ targetState = IdleTarget
  /\ \E node \in ExecNodes, continueOnFail \in BOOLEAN :
       \E n \in (IF node = "ping" THEN 0..MaxPings ELSE {1}),
          items \in SeqsUpTo(IF node = "ping" THEN PingItems ELSE ServerCheckItems,
                             MaxItems) :
         exec = [IdleExec EXCEPT !.node = node, !.continueOnFail = continueOnFail,
                                 !.numberOfPings = n, !.items = items,
                                 !.state = "running"]

\* one iteration of the loop of Ping.execute
PingExecuteItem ==
  /\ exec.node = "ping"
  /\ exec.state = "running"
  /\ exec.i < Len(exec.items)
  /\ \E results \in SeqsOfLen(PingResponses, exec.numberOfPings) :
       LET item == exec.items[exec.i + 1]
           t == PingTry(item.host, exec.numberOfPings, results)
       IN exec' = IF t.threw
                  THEN ExecuteCatch(exec, PingErrorRecord(t.message), t.message)
                  ELSE ExecutePush(exec, t.json)
  /\ UNCHANGED <<pollVars, probe, store, nodes, targetState>>

\* one iteration of the loop of the Server Check node's execute
ServerCheckExecuteItem ==
  /\ exec.node = "serverCheck"
  /\ exec.state = "running"
  /\ exec.i < Len(exec.items)
  /\ \E reachable \in BOOLEAN :
       LET item == exec.items[exec.i + 1]
           t == ServerCheckTry(item.checkType, item.target, reachable)
       IN exec' = IF t.threw
                  THEN ExecuteCatch(exec, ServerCheckErrorRecord(t.message), t.message)
                  ELSE ExecutePush(exec, t.json)
  /\ UNCHANGED <<pollVars, probe, store, nodes, targetState>>

\* return [returnData]
ExecuteReturn ==
  /\ exec.state = "running"
  /\ exec.i = Len(exec.items)
  /\ exec' = [exec EXCEPT !.state = "returned", !.output = <<exec.returnData>>]
  /\ UNCHANGED <<pollVars, probe, store, nodes, targetState>>

NextExecute ==
  \/ PingExecuteItem
  \/ ServerCheckExecuteItem
  \/ ExecuteReturn

SpecExecute == InitExecute /\ [][NextExecute]_vars

(***************************************************************************)
(* Cycles of one target, serialized by the host or not.  A cycle reads the *)
(* static data before its probes and assigns the counter and the status to *)
(* the same object after them.                                             *)
(***************************************************************************)
InitOverlap ==
  /\ PollIdle
  /\ probe = IdleProbe
  /\ store = IdleStore
  /\ nodes = IdleNodes
  /\ exec = IdleExec
  /\ \E serialized \in BOOLEAN :
       targetState = [IdleTarget EXCEPT !.serialized = serialized]

\* poll() up to the first await: lines 136-139 (611-614)
OverlapPollStart ==
  /\ targetState.started < MaxOverlapCycles
  /\ targetState.serialized => targetState.inFlight = <<>>
  /\ targetState' = [targetState EXCEPT
                       !.inFlight = Append(@, targetState.staticData),
                       !.started = @ + 1]
  /\ UNCHANGED <<pollVars, probe, store, nodes, exec>>

\* poll() after the probes of the k-th cycle in flight: lines 167-267 (645-739)
OverlapPollFinish ==
  /\ \E k \in 1..Len(targetState.inFlight), isAlive \in BOOLEAN :
       LET c == CycleOutcome(targetState.inFlight[k], failureThreshold, triggerMode,
                             isAlive, FALSE)
       IN targetState' = [targetState EXCEPT
                       !.staticData = SaveState(@, c),
                       !.inFlight = Without(@, k),
                       !.completed = Append(@, [reachable |-> isAlive])]
  /\ UNCHANGED <<pollVars, probe, store, nodes, exec>>

NextOverlap == OverlapPollStart \/ OverlapPollFinish

SpecOverlap == InitOverlap /\ [][NextOverlap]_vars

(***************************************************************************)
(* Properties of the poll cycle.                                           *)
(***************************************************************************)
\* length of the run of failed cycles that ends at cycle i of h
RECURSIVE FailedRun(_, _)
FailedRun(h, i) ==
  IF i = 0 THEN 0
  ELSE IF h[i].reachable THEN 0
  ELSE 1 + FailedRun(h, i - 1)

Completed == 1..Len(hist)

\* C1: with failureThreshold K >= 1, in a run of failed cycles that follows a
\* successful cycle the debounced status stays online for failed cycles 1..K-1
\* and is offline from the K-th consecutive failed cycle on.
C1_OfflineExactlyAtKthFailure ==
  failureThreshold >= 1 =>
    \A i \in Completed :
      (~hist[i].reachable /\ i - FailedRun(hist, i) >= 1) =>
        (hist[i].status <=> FailedRun(hist, i) < failureThreshold)

\* C2: a successful cycle yields debounced status online in that same cycle and
\* stores consecutiveFailures = 0, for every configured failureThreshold.
C2_SuccessIsOnlineAtOnce ==
  \A i \in Completed :
    hist[i].reachable =>
      /\ hist[i].status
      /\ hist[i].failures = 0
      /\ (i = Len(hist) => /\ workflowStaticData["consecutiveFailures"] = 0
                           /\ outputData.status = "online")

\* C3: the persisted consecutiveFailures is never negative and equals the length
\* of the trailing run of failed cycles; each cycle sets it to 0 exactly when
\* the cycle is reachable and otherwise to its previous value plus 1.
C3_CounterIsTrailingFailedRun ==
  /\ LoadConsecutiveFailures(workflowStaticData) >= 0
  /\ LoadConsecutiveFailures(workflowStaticData) = FailedRun(hist, Len(hist))
  /\ \A i \in Completed :
       /\ hist[i].failures = FailedRun(hist, i)
       /\ (hist[i].failures = 0 <=> hist[i].reachable)
       /\ (~hist[i].reachable =>
             hist[i].failures = (IF i = 1 THEN 0 ELSE hist[i - 1].failures) + 1)

C3_Witness ==
  /\ Len(hist) = 4
  /\ ~hist[1].reachable
  /\ hist[2].reachable
  /\ ~hist[3].reachable
  /\ ~hist[4].reachable
  /\ workflowStaticData["consecutiveFailures"] = 2

C5_StatusChangeFiresOnChange ==
  triggerMode = "statusChange" =>
    /\ \A i \in Completed :
         hist[i].fired <=> (i = 1 \/ hist[i].status # hist[i - 1].status)
    /\ \A i \in Completed :
         (i > 1 /\ hist[i].status = hist[i - 1].status) =>
           ~(hist[i].fired /\ hist[i - 1].fired)
    /\ (Len(hist) > 0 => (result = "event" <=> hist[Len(hist)].fired))

C5_Witness ==
  /\ triggerMode = "statusChange"
  /\ Len(hist) = 4
  /\ hist[1].fired /\ ~hist[1].status
  /\ ~hist[2].fired /\ ~hist[2].status
  /\ hist[3].fired /\ hist[3].status
  /\ ~hist[4].fired /\ hist[4].status
  /\ result = "null"

\* C6: fresh state, failureThreshold = 2, statusChange, failing cycles 1-3 and a
\* success on cycle 4: cycle 1 failures=1 online; cycle 2 failures=2 offline,
\* emits 'went offline'; cycle 3 failures=3 offline, no event; cycle 4
\* failures=0 online, emits 'came online'.
C6_Reach == <<FALSE, FALSE, FALSE, TRUE>>

C6_Expected ==
  << [failures |-> 1, status |-> TRUE],
     [failures |-> 2, status |-> FALSE, fired |-> TRUE, reason |-> "went offline"],
     [failures |-> 3, status |-> FALSE, fired |-> FALSE, reason |-> ""],
     [failures |-> 0, status |-> TRUE, fired |-> TRUE, reason |-> "came online"] >>

C6_ThresholdTwoScenario ==
  (failureThreshold = 2 /\ triggerMode = "statusChange" /\ numberOfPings >= 1) =>
    \A i \in Completed :
      (\A j \in 1..i : hist[j].reachable = C6_Reach[j]) =>
        /\ hist[i].failures = C6_Expected[i].failures
        /\ hist[i].status = C6_Expected[i].status
        /\ (i > 1 => /\ hist[i].fired = C6_Expected[i].fired
                     /\ hist[i].reason = C6_Expected[i].reason)

\* C7: in highLatency mode a cycle emits iff its debounced status is online and
\* the measured latency is strictly greater than latencyThreshold; it never
\* emits in a cycle whose debounced status is offline, for any failureThreshold.
C7_HighLatencyOnlyWhenOnline ==
  triggerMode = "highLatency" =>
    /\ \A i \in Completed :
         hist[i].fired <=> (hist[i].status /\ hist[i].latencyExceeded)
    /\ (result = "event" => outputData.status = "online")

\* C8: onlyOffline emits iff the cycle's debounced status is offline, onlyOnline
\* iff it is online; the emitted event's status field agrees with the mode.
C8_OnlyOfflineOnlyOnline ==
  /\ triggerMode = "onlyOffline" =>
       /\ \A i \in Completed : hist[i].fired <=> ~hist[i].status
       /\ (result = "event" => outputData.status = "offline")
       /\ (result = "null" /\ Len(hist) > 0 => outputData.status = "online")
  /\ triggerMode = "onlyOnline" =>
       /\ \A i \in Completed : hist[i].fired <=> hist[i].status
       /\ (result = "event" => outputData.status = "online")
       /\ (result = "null" /\ Len(hist) > 0 => outputData.status = "offline")

C8_Witness ==
  /\ triggerMode = "onlyOffline"
  /\ Len(hist) = 3
  /\ ~hist[1].fired
  /\ hist[2].fired
  /\ ~hist[3].fired
  /\ result = "null"
  /\ outputData.status = "online"

\* C9: in everyPoll mode every poll cycle emits an event: poll() never returns
\* null, whatever the probe result, previous state or other configuration.
C9_EveryPollNeverNull ==
  triggerMode = "everyPoll" => result # "null"

\* C10: a failureThreshold < 1 is rejected before any status is computed; no
\* cycle reports the target offline while the probe succeeded.
C10_ThresholdBelowOneRejected ==
  failureThreshold < 1 =>
    /\ hist = <<>>
    /\ result \in {"none", "throw"}

\* C11: a numberOfPings < 1 is signalled as a configuration error by the ping
\* trigger's poll(): no status or event is computed from zero attempts and the
\* persisted state is not updated from it.
C11_AttemptsBelowOneRejected ==
  (variant = "ping" /\ numberOfPings < 1) =>
    /\ hist = <<>>
    /\ DOMAIN workflowStaticData = {}
    /\ result \in {"none", "throw"}

(***************************************************************************)
(* Properties of the probes.                                               *)
(***************************************************************************)
ProbeRuns == probe.promise.state \notin {"none", "rejected"}

\* C12: a timeout of 0 or less is rejected or replaced by the default (10 s)
\* before any probe starts; no probe runs with a disabled timeout and none
\* fails immediately because of it.
C12_NonPositiveTimeoutNeverUsed ==
  (probe.timeoutSec <= 0 /\ ProbeRuns) =>
    /\ probe.timer \in {"armed", "cleared", "fired"}
    /\ probe.timerMs = DefaultTimeoutSeconds * 1000

\* C13: an empty target is signalled as an error by every node and by both
\* triggers: no probe is started for it and no result is produced.
C13_EmptyTargetNeverProbed ==
  (probe.target = "empty" /\ probe.timeoutSec > 0) =>
    /\ probe.promise.state \in {"none", "rejected"}
    /\ probe.handle = "none"
    /\ probe.lookup = "none"

\* C14: an unknown checkType or triggerMode is surfaced to the caller of poll()
\* as an error; it is never silently a cycle without an event.
C14_UnknownEnumSurfaced ==
  ((checkType = "unknownType" \/ triggerMode = "unknownMode") /\ numberOfPings >= 1) =>
    /\ result \in {"none", "throw"}
    /\ hist = <<>>

C16_TcpSocketDestroyed ==
  probe.checkType = "tcp" =>
    /\ probe.promise.state = "resolved" => probe.handle = "destroyed"
    /\ probe.promise.state = "rejected" => probe.handle = "none"
    /\ probe.events > 0 => probe.handle = "destroyed"

C16_Witness ==
  /\ probe.checkType = "tcp"
  /\ probe.firstEvent = "connect"
  /\ probe.promise.state = "resolved"
  /\ probe.promise.reachable
  /\ probe.handle = "destroyed"

\* C17: in executeDnsCheck the timer and the lookup race.  Timer first: the
\* result is reachable = false with 'DNS lookup timeout' and a later lookup
\* callback does not change it.  Lookup first: its result is returned, the
\* timer is cancelled and never fires.  Exactly one result is delivered, that
\* of the first event.
C17_DnsFirstEventWins ==
  probe.checkType = "dns" =>
    /\ probe.events > 0 => probe.promise.state = "resolved"
    /\ probe.firstEvent = "timer" =>
         /\ ~probe.promise.reachable
         /\ probe.promise.error = "DNS lookup timeout"
    /\ probe.firstEvent \in {"lookupOk", "lookupErr"} =>
         /\ probe.promise.reachable = (probe.firstEvent = "lookupOk")
         /\ probe.promise.error = probe.firstError
         /\ probe.timer = "cleared"
         /\ ~probe.timerFired

C17_Witness ==
  /\ probe.checkType = "dns"
  /\ probe.firstEvent = "timer"
  /\ probe.lookup = "done"
  /\ probe.events = 2
  /\ probe.promise.state = "resolved"
  /\ probe.promise.error = "DNS lookup timeout"

\* C18: an HTTP probe that receives a response is reachable for every status
\* code when acceptAnyStatus is true, and iff 200 <= statusCode < 400 when it
\* is false; the result's status is 'online' exactly when reachable.
C18_HttpReachabilityPolicy ==
  (probe.checkType = "http" /\ probe.firstEvent = "response") =>
    /\ probe.promise.state = "resolved"
    /\ probe.promise.reachable =
         (probe.acceptAnyStatus \/ (200 <= probe.firstCode /\ probe.firstCode < 400))
    /\ probe.promise.statusCode = probe.firstCode
    /\ probe.caller = "node" =>
         (probe.promise.status = "online" <=> probe.promise.reachable)

C18_Witness ==
  /\ probe.checkType = "http"
  /\ probe.caller = "node"
  /\ ~probe.acceptAnyStatus
  /\ probe.firstEvent = "response"
  /\ probe.firstCode = 400
  /\ ~probe.promise.reachable
  /\ probe.promise.status = "offline"

(***************************************************************************)
(* Properties of nodes polling side by side.                               *)
(***************************************************************************)
\* C19: poll cycles of independent targets may interleave arbitrarily: each
\* target's persisted state and emitted events depend only on its own probe
\* results and configuration and equal what its cycles produce when run alone.
C19_TargetsAreIndependent ==
  \A n \in Nodes :
    LET alone == Replay(nodes[n].inputs, Len(nodes[n].inputs),
                        nodes[n].threshold, nodes[n].mode)
    IN /\ store[n] = alone.sd
       /\ nodes[n].events = alone.events

\* n1 finished a cycle while n2 was between its read and its write
C19_Witness ==
  /\ Len(nodes["n1"].inputs) = 2
  /\ Len(nodes["n2"].inputs) = 1
  /\ nodes["n2"].phase = "probing"
  /\ DOMAIN nodes["n2"].read # {}
  /\ ~nodes["n1"].inputs[2].isAlive
  /\ nodes["n2"].inputs[1].isAlive
  /\ store["n1"]["consecutiveFailures"] = 1
  /\ store["n2"]["consecutiveFailures"] = 0

IsNA(x) == "text" \in DOMAIN x /\ x.text = "N/A"

\* C20: when every attempt of a cycle fails, the latencies reported by the ping
\* trigger (responseTime, responseTimeMs, details.minTime, details.maxTime) are
\* all the 'N/A' sentinel; no numeric 0 and no Infinity appears in the output.
C20_NoLatencyWhenAllFail ==
  (variant = "ping" /\ numberOfPings >= 1 /\ hist # <<>>
     /\ outputData.pingsSuccessful = 0) =>
    /\ IsNA(outputData.responseTime)
    /\ IsNA(outputData.responseTimeMs)
    /\ IsNA(outputData.minTime)
    /\ IsNA(outputData.maxTime)

\* C24: in every mode a poll cycle emits at most one event: poll() returns
\* null (no item) or exactly one item, the cycle's outputData; a cycle whose
\* mode's condition does not hold returns null, not an empty or partial event.
C24_AtMostOneEventPerCycle ==
  /\ Len(emitted) <= 1
  /\ result = "event" <=> Len(emitted) = 1
  /\ result \in {"none", "null", "throw"} => emitted = <<>>
  /\ emitted # <<>> =>
       /\ emitted[1] = outputData
       /\ emitted[1].triggerReason # ""
       /\ emitted[1].status \in {"online", "offline"}
  /\ Len(hist) > 0 => (result = "event" <=> hist[Len(hist)].fired)
  /\ Len(hist) > 0 => (result = "null" <=> ~hist[Len(hist)].fired)

C24_Witness ==
  /\ triggerMode = "onlyOffline"
  /\ Len(hist) = 3
  /\ hist[1].fired /\ hist[2].fired /\ ~hist[3].fired
  /\ result = "null"
  /\ emitted = <<>>

\* C25: every event of statusChange mode carries the reason of its cause:
\* 'Initial status check' exactly on the cycle that found no persisted
\* previousStatus, 'came online' exactly on an offline-to-online transition,
\* 'went offline' exactly on an online-to-offline transition; the fields
\* previousStatus/newStatus are present exactly on transitions and differ.  A
\* target reachable on every cycle with failureThreshold = 2 emits only the
\* 'Initial status check' event of cycle 1.
C25_StatusChangeReasons ==
  triggerMode = "statusChange" =>
    /\ \A i \in Completed :
         hist[i].fired =>
           /\ hist[i].reason = "Initial status check" <=> i = 1
           /\ hist[i].reason = "came online" <=>
                (i > 1 /\ ~hist[i - 1].status /\ hist[i].status)
           /\ hist[i].reason = "went offline" <=>
                (i > 1 /\ hist[i - 1].status /\ ~hist[i].status)
           /\ hist[i].reason \in {"Initial status check", "came online", "went offline"}
    /\ emitted # <<>> =>
         LET e == emitted[1]
             i == Len(hist)
         IN /\ e.triggerReason = hist[i].reason
            /\ e.hasPreviousStatus <=> (i > 1 /\ hist[i - 1].status # hist[i].status)
            /\ e.hasPreviousStatus =>
                 /\ e.previousStatus = StatusText(hist[i - 1].status)
                 /\ e.newStatus = StatusText(hist[i].status)
                 /\ e.previousStatus # e.newStatus
            /\ ~e.hasPreviousStatus => (e.previousStatus = "" /\ e.newStatus = "")
    /\ (failureThreshold = 2 /\ \A i \in Completed : hist[i].reachable) =>
         \A i \in Completed :
           /\ hist[i].fired <=> i = 1
           /\ i = 1 => hist[i].reason = "Initial status check"

C25_Witness ==
  /\ triggerMode = "statusChange"
  /\ failureThreshold = 2
  /\ Len(hist) = 3
  /\ hist[1].reason = "Initial status check"
  /\ hist[2].reason = "went offline"
  /\ hist[3].reason = "came online"
  /\ emitted # <<>>
  /\ emitted[1].previousStatus = "offline"
  /\ emitted[1].newStatus = "online"

C28_StateSavedEveryCycle ==
  Len(hist) > 0 =>
    /\ Has(workflowStaticData, "previousStatus")
    /\ Has(workflowStaticData, "consecutiveFailures")
    /\ workflowStaticData["previousStatus"] = hist[Len(hist)].status
    /\ workflowStaticData["consecutiveFailures"] = hist[Len(hist)].failures
    /\ triggerMode = "statusChange" =>
         \A i \in Completed :
           i > 1 => (hist[i].fired <=> hist[i].status # hist[i - 1].status)

C28_Witness ==
  /\ triggerMode = "onlyOnline"
  /\ Len(hist) = 2
  /\ hist[1].fired
  /\ ~hist[2].fired
  /\ result = "null"
  /\ workflowStaticData["previousStatus"] = FALSE
  /\ workflowStaticData["consecutiveFailures"] = 1

\* C30: a cycle of the server-check trigger that ends without a probe result
\* (unknown checkType, or the probe call throwing on an unparsable URL) leaves
\* the persisted previousStatus and consecutiveFailures as they were and emits
\* no event.
C30_NoResultLeavesState ==
  [][(cycles' = cycles + 1 /\ hist' = hist) =>
       /\ variant = "server"
       /\ workflowStaticData' = workflowStaticData
       /\ emitted' = <<>>
       /\ result' \in {"null", "throw"}]_vars

C30_Witness ==
  /\ variant = "server"
  /\ checkType = "http"
  /\ ~urlParses
  /\ cycles >= 2
  /\ result = "throw"
  /\ emitted = <<>>
  /\ workflowStaticData = SavedOnline

(***************************************************************************)
(* Properties of the aggregation and of execute().                         *)
(***************************************************************************)
\* tenths is 100 * (attempts - successes) / attempts rounded to one decimal
IsLossInTenths(tenths, attempts, successes) ==
  LET d == tenths * attempts - 1000 * (attempts - successes)
  IN /\ 2 * d <= attempts
     /\ 2 * (0 - d) <= attempts
     /\ 0 <= tenths
     /\ tenths <= 1000

\* C21: for every attempts count >= 1 and every outcome of the attempts the
\* reported packet loss equals 100 * (attempts - successCount) / attempts and
\* lies in [0, 100] (the formatted text is that value to one decimal), and
\* pingsSuccessful + pingsFailed = pingsAttempted, 0 <= successCount <= attempts;
\* in the ping trigger's poll() and in the record Ping.execute builds.
C21_PacketLossAndCounts ==
  /\ (variant = "ping" /\ numberOfPings >= 1 /\ Len(hist) > 0) =>
       LET attempts == numberOfPings
           successCount == aliveReplies
           loss == outputData.packetLossPercent
       IN /\ loss.den > 0
          /\ loss.num * attempts = 100 * (attempts - successCount) * loss.den
          /\ 0 <= loss.num
          /\ loss.num <= 100 * loss.den
          /\ outputData.packetLoss.text = "%"
          /\ IsLossInTenths(outputData.packetLoss.tenths, attempts, successCount)
          /\ outputData.pingsAttempted = attempts
          /\ outputData.pingsSuccessful = successCount
          /\ outputData.pingsSuccessful + outputData.pingsFailed = outputData.pingsAttempted
          /\ 0 <= successCount
          /\ successCount <= attempts
  /\ cycles = 0 =>
       \A attempts \in 1..MaxPings :
         \A results \in SeqsOfLen(PingResponses, attempts) :
           LET t == PingTry("host", attempts, results)
               successCount == Successes(results)
           IN /\ ~t.threw
              /\ t.json.packetLoss.text = "%"
              /\ IsLossInTenths(t.json.packetLoss.tenths, attempts, successCount)
              /\ t.json.pingsAttempted = attempts
              /\ t.json.pingsSuccessful = successCount
              /\ t.json.pingsSuccessful + t.json.pingsFailed = t.json.pingsAttempted

C21_Witness ==
  /\ variant = "ping"
  /\ numberOfPings = 2
  /\ aliveReplies = 1
  /\ outputData.packetLossPercent = Frac(100, 2)
  /\ outputData.packetLoss.tenths = 500
  /\ outputData.pingsFailed = 1

\* C22: a check with N >= 1 ping attempts is reported alive/reachable exactly
\* when at least one attempt succeeded, in the ping trigger's poll() and in the
\* record of the Ping node's execute().
C22_AliveIffAnyAttemptSucceeded ==
  /\ (variant = "ping" /\ numberOfPings >= 1 /\ Len(hist) > 0) =>
       (outputData.alive <=> aliveReplies > 0)
  /\ \A k \in 1..Len(exec.returnData) :
       LET json == exec.returnData[k].json
       IN (exec.node = "ping" /\ json.status # "error") =>
            /\ json.alive <=> json.pingsSuccessful > 0
            /\ json.status = "reachable" <=> json.pingsSuccessful > 0

\* item k of the run raises an error in the try block
ItemRaises(x, k) ==
  IF x.node = "ping"
  THEN x.items[k].host = "" \/ x.numberOfPings = 0
  ELSE x.items[k].checkType = "unknownType" \/ x.items[k].target # "ok"

\* C23: in execute() of the Ping and Server Check nodes a probe failure gives a
\* normal record and never aborts the run; an item that raises an error
\* gives, with continueOnFail, exactly one record with status 'error' and the
\* loop goes on, so the output has one record per input item, in input order,
\* with pairedItem = its index; without continueOnFail the error propagates
\* and no output is returned.
C23_ExecuteErrorHandling ==
  exec.state # "idle" =>
    /\ Len(exec.returnData) = exec.i
    /\ \A k \in 1..Len(exec.returnData) :
         LET rec == exec.returnData[k]
         IN /\ rec.pairedItem = k - 1
            /\ rec.json.status = "error" <=> ItemRaises(exec, k)
            /\ ItemRaises(exec, k) => (exec.continueOnFail /\ rec.json.error # "")
            /\ ~ItemRaises(exec, k) =>
                 rec.json.status \in {"reachable", "unreachable", "online", "offline"}
    /\ exec.state = "returned" =>
         /\ exec.i = Len(exec.items)
         /\ exec.output = <<exec.returnData>>
    /\ exec.state = "thrown" =>
         /\ ~exec.continueOnFail
         /\ exec.i < Len(exec.items)
         /\ ItemRaises(exec, exec.i + 1)
         /\ exec.error # ""
         /\ exec.output = <<>>
    /\ exec.state = "running" => exec.output = <<>>
    /\ exec.continueOnFail => exec.state # "thrown"

C23_Witness ==
  /\ exec.node = "ping"
  /\ exec.continueOnFail
  /\ exec.state = "returned"
  /\ Len(exec.items) = 2
  /\ exec.items[1].host = ""
  /\ Len(exec.output) = 1
  /\ Len(exec.output[1]) = 2
  /\ exec.output[1][1].json.status = "error"
  /\ exec.output[1][2].json.status = "unreachable"
  /\ exec.output[1][2].pairedItem = 1

(***************************************************************************)
(* Properties of overlapping cycles and of the probe's single result.      *)
(***************************************************************************)
PersistedFailures ==
  IF Has(targetState.staticData, "consecutiveFailures")
  THEN targetState.staticData["consecutiveFailures"]
  ELSE 0

\* C26: the static data is read at the start of poll() and written after the
\* awaited probes.  With serialized cycles the persisted consecutiveFailures
\* is the number of consecutive failed cycles completed; when two cycles of
\* one target overlap, a state with a smaller persisted count (a lost update)
\* is reachable.
C26_SerializedCyclesLoseNoUpdate ==
  /\ Len(targetState.inFlight) + Len(targetState.completed) = targetState.started
  /\ targetState.serialized =>
       /\ Len(targetState.inFlight) <= 1
       /\ PersistedFailures =
            FailedRun(targetState.completed, Len(targetState.completed))

\* two failed cycles that overlapped: both read the count 0, both wrote 1
C26_Witness ==
  /\ ~targetState.serialized
  /\ targetState.inFlight = <<>>
  /\ targetState.completed = <<[reachable |-> FALSE], [reachable |-> FALSE]>>
  /\ PersistedFailures = 1
  /\ PersistedFailures < FailedRun(targetState.completed, Len(targetState.completed))

\* C29: each HTTP and TCP probe delivers exactly one result, that of the first
\* of its events; later events, including the error that follows the destroy
\* of a timed-out request, do not change it: a probe that timed out reports
\* 'Connection timeout' and a probe that got a response stays reachable.
C29_FirstEventDecides ==
  probe.checkType \in {"http", "tcp"} =>
    /\ probe.events > 0 => probe.promise.state = "resolved"
    /\ probe.firstEvent = "timeout" =>
         /\ ~probe.promise.reachable
         /\ probe.promise.error = "Connection timeout"
    /\ probe.firstEvent = "error" =>
         /\ ~probe.promise.reachable
         /\ probe.promise.error = probe.firstError
    /\ probe.firstEvent = "connect" =>
         /\ probe.promise.reachable
         /\ probe.promise.error = ""
    /\ probe.firstEvent = "response" =>
         /\ probe.promise.error = ""
         /\ probe.promise.statusCode = probe.firstCode
         /\ (probe.caller = "trigger" \/ probe.acceptAnyStatus) => probe.promise.reachable

\* the request timed out, was destroyed, and the hang-up error arrived after
C29_Witness ==
  /\ probe.checkType = "http"
  /\ probe.firstEvent = "timeout"
  /\ probe.events = 2
  /\ probe.handle = "destroyed"
  /\ ~probe.hangup
  /\ probe.promise.error = "Connection timeout"

====
